---- MODULE Spec2Model ----
(***************************************************************************)
(* Model of src/App.py: the GameSpecial Flask application.  The state is   *)
(* the three tables (User, Game, Message), the session of every client and *)
(* the response of the last request.  Every route handler is one action.   *)
(* The two handlers that read the database, decide and then write or read  *)
(* again (add_game, chat) are also modelled in two steps each, with the    *)
(* request held in inflight between the steps, so that requests served by  *)
(* different threads interleave.                                           *)
(*                                                                         *)
(* Text (handles, emails, passwords, profile fields, message contents) is  *)
(* a sequence of one-character strings, so that strip(), lower(), slicing  *)
(* and the regular expressions are computed rather than assumed.           *)
(***************************************************************************)
EXTENDS Integers, Sequences, FiniteSets, TLC

VARIABLES users, games, msgs, session, resp, inflight

vars == <<users, games, msgs, session, resp, inflight>>
db == <<users, games, msgs>>

(***************************************************************************)
(* Bounds of the model.                                                    *)
(***************************************************************************)
MaxUsers == 2
MaxMsgs == 2
MaxGameId == 3

(***************************************************************************)
(* Text helpers.                                                           *)
(***************************************************************************)
Rep(ch, n) == [i \in 1..n |-> ch]

LowerSeq == <<"a","b","c","d","e","f","g","h","i","j","k","l","m",
              "n","o","p","q","r","s","t","u","v","w","x","y","z">>
UpperSeq == <<"A","B","C","D","E","F","G","H","I","J","K","L","M",
              "N","O","P","Q","R","S","T","U","V","W","X","Y","Z">>
Letters == {LowerSeq[i] : i \in 1..26} \cup {UpperSeq[i] : i \in 1..26}
Digits == {"0","1","2","3","4","5","6","7","8","9"}
Whitespace == {" ", "\t", "\n", "\r"}

\* str.lower(), one character
LowerChar(ch) ==
    IF \E i \in 1..26 : UpperSeq[i] = ch
    THEN LowerSeq[CHOOSE i \in 1..26 : UpperSeq[i] = ch]
    ELSE ch

\* str.lower()
lower(s) == [i \in 1..Len(s) |-> LowerChar(s[i])]

\* str.strip(): drops leading and trailing whitespace
RECURSIVE FirstKept(_, _)
FirstKept(s, i) ==
    IF i > Len(s) \/ s[i] \notin Whitespace THEN i ELSE FirstKept(s, i + 1)

RECURSIVE LastKept(_, _)
LastKept(s, i) ==
    IF i < 1 \/ s[i] \notin Whitespace THEN i ELSE LastKept(s, i - 1)

strip(s) ==
    IF FirstKept(s, 1) > Len(s) THEN <<>>
    ELSE SubSeq(s, FirstKept(s, 1), LastKept(s, Len(s)))

\* s[:n]
Prefix(s, n) == IF Len(s) <= n THEN s ELSE SubSeq(s, 1, n)

AllIn(s, lo, hi, class) == \A i \in lo..hi : s[i] \in class

(***************************************************************************)
(* Validators (src/App.py 72-89).  Each yields the error it reports, and   *)
(* "ok" where the code returns None.                                       *)
(***************************************************************************)
UsernameMinLen == 3
UsernameMaxLen == 20
PasswordMinLen == 6
ContentMaxLen == 1000
DescriptionMaxLen == 500
ContactMaxLen == 100
TldMinLen == 2

UsernameChars == Letters \cup Digits \cup {"_"}
EmailLocalChars == Letters \cup Digits \cup {".", "_", "%", "+", "-"}
EmailDomainChars == Letters \cup Digits \cup {".", "-"}

\* the error validate_username returns, "ok" for None
validate_username(username) ==
    IF Len(username) < UsernameMinLen THEN "username_short"
    ELSE IF Len(username) > UsernameMaxLen THEN "username_long"
    ELSE IF ~ AllIn(username, 1, Len(username), UsernameChars) THEN "username_chars"
    ELSE "ok"

\* ^[a-zA-Z0-9._%+-]+@[a-zA-Z0-9.-]+\.[a-zA-Z]{2,}$ : some "@" at position a
\* and some "." at position d split the text into the three classes.  The
\* email was stripped before, so the "$" cannot match before a final newline.
EmailMatches(email) ==
    \E a \in 2..Len(email) : \E d \in (a + 2)..Len(email) :
        /\ email[a] = "@"
        /\ email[d] = "."
        /\ AllIn(email, 1, a - 1, EmailLocalChars)
        /\ AllIn(email, a + 1, d - 1, EmailDomainChars)
        /\ Len(email) - d >= TldMinLen
        /\ AllIn(email, d + 1, Len(email), Letters)

validate_email(email) == IF EmailMatches(email) THEN "ok" ELSE "email_format"

validate_password(password) ==
    IF Len(password) < PasswordMinLen THEN "password_short" ELSE "ok"

(***************************************************************************)
(* Password hashing (werkzeug): a salted hash.  The digest is modelled as  *)
(* the pair of salt and password (an ideal, collision-free hash); the salt *)
(* is drawn at random by the library, so it is an input of register.       *)
(***************************************************************************)
Digest(salt, password) == <<salt, password>>

generate_password_hash(salt, password) ==
    [salt |-> salt, digest |-> Digest(salt, password)]

check_password_hash(pwhash, password) ==
    pwhash.digest = Digest(pwhash.salt, password)


(***************************************************************************)
(* The game catalog (src/App.py 19-22).                                    *)
(***************************************************************************)
AVAILABLE_GAMES ==
    {"World of Warcraft", "Cyberpunk 2077", "Dota 2", "Counter-Strike 2",
     "Baldur's Gate 3", "Minecraft", "Apex Legends", "Genshin Impact",
     "Rocket League"}

(***************************************************************************)
(* Tables.  users and msgs are sequences: the primary key of a row is its  *)
(* index (no handler deletes a User or a Message row, and SQLite gives a   *)
(* new row the largest rowid plus one).  games is a set of rows with an    *)
(* explicit id, because delete_game removes rows.                          *)
(***************************************************************************)
NoUser == 0

\* the browsers that hold a session cookie
Clients == {"c1", "c2"}

UserIds == 1..Len(users)
MsgIds == 1..Len(msgs)

\* a new User row: the column defaults of the model class
NewUser(username, email, pwhash) ==
    [username |-> username, email |-> email, password_hash |-> pwhash,
     description |-> <<>>, contact |-> <<>>, discord |-> <<>>,
     telegram |-> <<>>, preferred_role |-> <<>>, is_active |-> TRUE]

\* a new Game row: SQLite rowid, one more than the largest id in the table
NextGameId ==
    IF games = {} THEN 1
    ELSE (CHOOSE g \in games : \A h \in games : h.id <= g.id).id + 1

NewGame(title, uid) == [id |-> NextGameId, game_title |-> title, user_id |-> uid]

\* func.now() has a resolution of one second: a new message carries the
\* timestamp of the latest message or a later one
NextTimestamps ==
    IF msgs = <<>> THEN {1}
    ELSE {msgs[Len(msgs)].timestamp, msgs[Len(msgs)].timestamp + 1}

NewMessage(sender, receiver, content, ts) ==
    [sender_id |-> sender, receiver_id |-> receiver, content |-> content,
     timestamp |-> ts, is_read |-> FALSE]

(***************************************************************************)
(* Queries.                                                                *)
(***************************************************************************)
MinOf(S) == IF S = {} THEN NoUser ELSE CHOOSE i \in S : \A j \in S : i <= j

\* User.query.filter_by(username=username).first()
UserByName(username) == MinOf({i \in UserIds : users[i].username = username})

\* User.query.filter_by(email=email).first()
UserByEmail(email) == MinOf({i \in UserIds : users[i].email = email})

\* User.query.filter_by(username=username, is_active=True).first()
ActiveUserByName(username) ==
    MinOf({i \in UserIds : users[i].username = username /\ users[i].is_active})

\* faulty variant of ActiveUsers: the is_active filter is missing
ActiveUsersUnfiltered == UserIds

\* User.query.filter_by(is_active=True).all()
ActiveUsers == {i \in UserIds : users[i].is_active}

\* user.games
GamesOf(uid) == {g \in games : g.user_id = uid}
TitlesOf(uid) == {g.game_title : g \in GamesOf(uid)}

\* unread messages from sender to receiver
UnreadFrom(sender, receiver) ==
    {m \in MsgIds : /\ msgs[m].sender_id = sender
                    /\ msgs[m].receiver_id = receiver
                    /\ ~ msgs[m].is_read}

\* Message.query.filter_by(receiver_id=uid, is_read=False).count()
UnreadCount(uid) ==
    Cardinality({m \in MsgIds : msgs[m].receiver_id = uid /\ ~ msgs[m].is_read})

\* the messages exchanged between a and b, in either direction
Between(a, b) ==
    {m \in MsgIds :
        \/ msgs[m].sender_id = a /\ msgs[m].receiver_id = b
        \/ msgs[m].sender_id = b /\ msgs[m].receiver_id = a}

\* the orderings of the message ids S by timestamp ascending; messages of the
\* same second come in any order
HistoryOrders(S) ==
    {h \in [1..Cardinality(S) -> S] :
        /\ \A i, j \in 1..Cardinality(S) : i # j => h[i] # h[j]
        /\ \A i, j \in 1..Cardinality(S) :
              i < j => msgs[h[i]].timestamp <= msgs[h[j]].timestamp}

(***************************************************************************)
(* The guards (src/App.py 92-117).  Each yields "pass" or the response     *)
(* that ends the request.                                                  *)
(***************************************************************************)
\* faulty variant of login_required: the session is not looked at
login_requiredAlwaysPass(c) == "pass"

login_required(c) ==
    IF session[c] = NoUser THEN "redirect_login" ELSE "pass"

\* faulty variant of ownership_required: the ids are not compared
ownership_requiredNoCompare(c, username) ==
    IF session[c] = NoUser THEN "redirect_login"
    ELSE IF UserByName(username) = NoUser THEN "not_found"
    ELSE "pass"

ownership_required(c, username) ==
    IF session[c] = NoUser THEN "redirect_login"
    ELSE IF UserByName(username) = NoUser THEN "not_found"
    ELSE IF UserByName(username) # session[c] THEN "forbidden"
    ELSE "pass"

\* @login_required above @ownership_required
OwnerGuard(c, username) ==
    IF login_required(c) # "pass" THEN login_required(c)
    ELSE ownership_required(c, username)

Respond(op, outcome, data) == [op |-> op, outcome |-> outcome, data |-> data]

\* no request of the client is between two steps
Idle == [op |-> "none"]


(***************************************************************************)
(* State after construction: db.create_all() on an empty database, no      *)
(* client holds a session, no request was served.                          *)
(***************************************************************************)
Init ==
    /\ users = <<>>
    /\ games = {}
    /\ msgs = <<>>
    /\ session = [c \in Clients |-> NoUser]
    /\ resp = Respond("none", "none", 0)
    /\ inflight = [c \in Clients |-> Idle]

(***************************************************************************)
(* GET / (src/App.py 124-136)                                              *)
(***************************************************************************)
HomeListing ==
    [users |-> ActiveUsers,
     user_count |-> Cardinality(ActiveUsers),
     games_in_db |-> Cardinality({g.game_title : g \in games})]

home ==
    /\ resp' = Respond("home", "page", HomeListing)
    /\ UNCHANGED <<users, games, msgs, session, inflight>>

(***************************************************************************)
(* POST /login (src/App.py 138-154)                                        *)
(***************************************************************************)
\* faulty variant of Authenticate: the lookup ignores is_active
AuthenticateInactive(username, password) ==
    LET user == UserByName(strip(username))
    IN  IF user # NoUser /\ check_password_hash(users[user].password_hash, password)
        THEN user ELSE NoUser

\* the user the login form authenticates, NoUser when it fails
Authenticate(username, password) ==
    LET user == ActiveUserByName(strip(username))
    IN  IF user # NoUser /\ check_password_hash(users[user].password_hash, password)
        THEN user ELSE NoUser

login(c, username, password) ==
    LET user == Authenticate(username, password)
    IN  IF user # NoUser
        THEN /\ session' = [session EXCEPT ![c] = user]
             /\ resp' = Respond("login", "login_ok", 0)
             /\ UNCHANGED <<users, games, msgs, inflight>>
        ELSE /\ resp' = Respond("login", "login_failed", 0)
             /\ UNCHANGED <<users, games, msgs, session, inflight>>

(***************************************************************************)
(* POST /register (src/App.py 156-187)                                     *)
(***************************************************************************)
\* faulty variant of RegisterError: the lookup by email is missing
RegisterErrorNoEmailLookup(username, email, password, confirm_password) ==
    IF validate_username(username) # "ok" THEN validate_username(username)
    ELSE IF validate_email(email) # "ok" THEN validate_email(email)
    ELSE IF validate_password(password) # "ok" THEN validate_password(password)
    ELSE IF password # confirm_password THEN "password_mismatch"
    ELSE IF UserByName(username) # NoUser THEN "duplicate_username"
    ELSE "ok"

\* faulty variant of RegisterError: the password is checked before the email
RegisterErrorPasswordFirst(username, email, password, confirm_password) ==
    IF validate_username(username) # "ok" THEN validate_username(username)
    ELSE IF validate_password(password) # "ok" THEN validate_password(password)
    ELSE IF validate_email(email) # "ok" THEN validate_email(email)
    ELSE IF password # confirm_password THEN "password_mismatch"
    ELSE IF UserByName(username) # NoUser THEN "duplicate_username"
    ELSE IF UserByEmail(email) # NoUser THEN "duplicate_email"
    ELSE "ok"

\* the first failing check of the form, "ok" when all pass
RegisterError(username, email, password, confirm_password) ==
    IF validate_username(username) # "ok" THEN validate_username(username)
    ELSE IF validate_email(email) # "ok" THEN validate_email(email)
    ELSE IF validate_password(password) # "ok" THEN validate_password(password)
    ELSE IF password # confirm_password THEN "password_mismatch"
    ELSE IF UserByName(username) # NoUser THEN "duplicate_username"
    ELSE IF UserByEmail(email) # NoUser THEN "duplicate_email"
    ELSE "ok"

register(form, salt) ==
    LET username == strip(form.username)
        email == lower(strip(form.email))
        error == RegisterError(username, email, form.password, form.confirm_password)
    IN  IF error # "ok"
        THEN /\ resp' = Respond("register", error, 0)
             /\ UNCHANGED <<users, games, msgs, session, inflight>>
        ELSE /\ Len(users) < MaxUsers
             /\ users' = Append(users,
                    NewUser(username, email,
                            generate_password_hash(salt, form.password)))
             /\ resp' = Respond("register", "registered", 0)
             /\ UNCHANGED <<games, msgs, session, inflight>>

(***************************************************************************)
(* GET /logout (src/App.py 189-193)                                        *)
(***************************************************************************)
logout(c) ==
    /\ session' = [session EXCEPT ![c] = NoUser]
    /\ resp' = Respond("logout", "logged_out", 0)
    /\ UNCHANGED <<users, games, msgs, inflight>>

(***************************************************************************)
(* GET /profile/<username> (src/App.py 195-198)                            *)
(***************************************************************************)
view_profile(username) ==
    /\ resp' = IF ActiveUserByName(username) = NoUser
               THEN Respond("view_profile", "not_found", 0)
               ELSE Respond("view_profile", "page", ActiveUserByName(username))
    /\ UNCHANGED <<users, games, msgs, session, inflight>>

(***************************************************************************)
(* GET|POST /edit_profile/<username> (src/App.py 200-217)                  *)
(***************************************************************************)
EditedUser(user, form) ==
    [user EXCEPT !.description = Prefix(form.description, DescriptionMaxLen),
                 !.contact = Prefix(form.contact, ContactMaxLen),
                 !.discord = Prefix(form.discord, ContactMaxLen),
                 !.telegram = Prefix(form.telegram, ContactMaxLen),
                 !.preferred_role = Prefix(form.preferred_role, ContactMaxLen)]

edit_profile(c, method, username, form) ==
    LET guard == OwnerGuard(c, username)
        user == UserByName(username)
    IN  IF guard # "pass"
        THEN /\ resp' = Respond("edit_profile", guard, 0)
             /\ UNCHANGED <<users, games, msgs, session, inflight>>
        ELSE IF method = "POST"
        THEN /\ users' = [users EXCEPT ![user] = EditedUser(users[user], form)]
             /\ resp' = Respond("edit_profile", "updated", user)
             /\ UNCHANGED <<games, msgs, session, inflight>>
        ELSE /\ resp' = Respond("edit_profile", "page", user)
             /\ UNCHANGED <<users, games, msgs, session, inflight>>

(***************************************************************************)
(* GET|POST /add_game/<username> (src/App.py 219-242)                      *)
(***************************************************************************)
\* faulty variant of TitleAccepted: the catalog is not consulted
TitleAcceptedAny(field) ==
    field # <<>> /\ field[1] # ""

\* game_title and game_title in AVAILABLE_GAMES
TitleAccepted(field) ==
    field # <<>> /\ field[1] # "" /\ field[1] \in AVAILABLE_GAMES

\* faulty variant of GameExists: the lookup finds nothing
GameExistsNever(uid, title) == FALSE

\* Game.query.filter_by(user_id=uid, game_title=title).first()
GameExists(uid, title) ==
    \E g \in games : g.user_id = uid /\ g.game_title = title

add_game(c, method, username, field) ==
    LET guard == OwnerGuard(c, username)
        user == UserByName(username)
    IN  IF guard # "pass"
        THEN /\ resp' = Respond("add_game", guard, 0)
             /\ UNCHANGED <<users, games, msgs, session, inflight>>
        ELSE IF method = "POST" /\ TitleAccepted(field)
        THEN IF ~ GameExists(user, field[1])
             THEN /\ NextGameId <= MaxGameId
                  /\ games' = games \cup {NewGame(field[1], user)}
                  /\ resp' = Respond("add_game", "added", user)
                  /\ UNCHANGED <<users, msgs, session, inflight>>
             ELSE /\ resp' = Respond("add_game", "already_there", user)
                  /\ UNCHANGED <<users, games, msgs, session, inflight>>
        ELSE /\ resp' = Respond("add_game", "page", user)
             /\ UNCHANGED <<users, games, msgs, session, inflight>>

(***************************************************************************)
(* POST /add_game/<username> in two steps: the existence query of line 228 *)
(* and the insert of lines 229-236.  Nothing holds the table between the   *)
(* two: the query is a plain SELECT and Game has no unique constraint on   *)
(* (user_id, game_title), so requests of other threads run in between.     *)
(***************************************************************************)
add_game_check(c, username, field) ==
    LET user == UserByName(username)
    IN  /\ inflight[c].op = "none"
        /\ OwnerGuard(c, username) = "pass"
        /\ TitleAccepted(field)
        /\ inflight' = [inflight EXCEPT ![c] =
                            [op |-> "add_game", user |-> user,
                             game_title |-> field[1],
                             exists |-> GameExists(user, field[1])]]
        /\ UNCHANGED <<users, games, msgs, session, resp>>

add_game_insert(c) ==
    LET request == inflight[c]
    IN  /\ request.op = "add_game"
        /\ IF ~ request.exists
           THEN /\ NextGameId <= MaxGameId
                /\ games' = games \cup {NewGame(request.game_title, request.user)}
                /\ resp' = Respond("add_game", "added", request.user)
           ELSE /\ resp' = Respond("add_game", "already_there", request.user)
                /\ UNCHANGED games
        /\ inflight' = [inflight EXCEPT ![c] = Idle]
        /\ UNCHANGED <<users, msgs, session>>

(***************************************************************************)
(* POST /delete_game/<username>/<game_id> (src/App.py 244-259)             *)
(***************************************************************************)
\* faulty variant of delete_game: the owner of the entry is not compared
delete_gameAnyOwner(c, username, game_id) ==
    LET guard == OwnerGuard(c, username)
        found == {g \in games : g.id = game_id}
    IN  IF guard # "pass"
        THEN /\ resp' = Respond("delete_game", guard, 0)
             /\ UNCHANGED <<users, games, msgs, session, inflight>>
        ELSE IF found = {}
        THEN /\ resp' = Respond("delete_game", "not_found", 0)
             /\ UNCHANGED <<users, games, msgs, session, inflight>>
        ELSE /\ games' = games \ found
             /\ resp' = Respond("delete_game", "deleted", 0)
             /\ UNCHANGED <<users, msgs, session, inflight>>

delete_game(c, username, game_id) ==
    LET guard == OwnerGuard(c, username)
        found == {g \in games : g.id = game_id}
    IN  IF guard # "pass"
        THEN /\ resp' = Respond("delete_game", guard, 0)
             /\ UNCHANGED <<users, games, msgs, session, inflight>>
        ELSE IF found = {}
        THEN /\ resp' = Respond("delete_game", "not_found", 0)
             /\ UNCHANGED <<users, games, msgs, session, inflight>>
        ELSE LET game == CHOOSE g \in found : TRUE
             IN  IF users[game.user_id].username # username
                 THEN /\ resp' = Respond("delete_game", "access_error", 0)
                      /\ UNCHANGED <<users, games, msgs, session, inflight>>
                 ELSE /\ games' = games \ {game}
                      /\ resp' = Respond("delete_game", "deleted", 0)
                      /\ UNCHANGED <<users, msgs, session, inflight>>

(***************************************************************************)
(* GET /find_game (src/App.py 261-296)                                     *)
(***************************************************************************)
\* faulty variant of FilterByGames: a user with any one of the selected titles passes
FilterByGamesAnyOf(query, selected_games) ==
    IF selected_games = <<>> THEN query
    ELSE {u \in query : \E i \in 1..Len(selected_games) :
                            \E g \in GamesOf(u) : g.game_title = selected_games[i]}

\* query.filter(User.games.any(game_title=t)) for every selected title
RECURSIVE FilterByGames(_, _)
FilterByGames(query, selected_games) ==
    IF selected_games = <<>> THEN query
    ELSE FilterByGames(
             {u \in query : \E g \in GamesOf(u) : g.game_title = Head(selected_games)},
             Tail(selected_games))

\* faulty variant of HasRequiredContact: every requested channel is required
HasEveryRequiredContact(u, contact_filters) ==
    /\ "discord" \in contact_filters => users[u].discord # <<>>
    /\ "telegram" \in contact_filters => users[u].telegram # <<>>

HasRequiredContact(u, contact_filters) ==
    \/ "discord" \in contact_filters /\ users[u].discord # <<>>
    \/ "telegram" \in contact_filters /\ users[u].telegram # <<>>

FindGame(selected_games, contact_filters) ==
    LET found_users == FilterByGames(ActiveUsers, selected_games)
    IN  IF contact_filters # {}
        THEN {u \in found_users : HasRequiredContact(u, contact_filters)}
        ELSE found_users

find_game(selected_games, contact_filters) ==
    /\ resp' = Respond("find_game", "page",
                       [found_users |-> FindGame(selected_games, contact_filters),
                        selected_games |-> selected_games,
                        contact_filters |-> contact_filters])
    /\ UNCHANGED <<users, games, msgs, session, inflight>>

(***************************************************************************)
(* POST /delete_user/<username> (src/App.py 298-310)                       *)
(***************************************************************************)
\* faulty variant of delete_user: the messages of the user go with the account
delete_userWithMessages(c, username) ==
    LET guard == OwnerGuard(c, username)
        user == UserByName(username)
    IN  IF guard # "pass"
        THEN /\ resp' = Respond("delete_user", guard, 0)
             /\ UNCHANGED <<users, games, msgs, session, inflight>>
        ELSE /\ users' = [users EXCEPT ![user].is_active = FALSE]
             /\ msgs' = SelectSeq(msgs, LAMBDA m : m.sender_id # user /\ m.receiver_id # user)
             /\ session' = [session EXCEPT ![c] = NoUser]
             /\ resp' = Respond("delete_user", "deleted", user)
             /\ UNCHANGED <<games, inflight>>

delete_user(c, username) ==
    LET guard == OwnerGuard(c, username)
        user == UserByName(username)
    IN  IF guard # "pass"
        THEN /\ resp' = Respond("delete_user", guard, 0)
             /\ UNCHANGED <<users, games, msgs, session, inflight>>
        ELSE /\ users' = [users EXCEPT ![user].is_active = FALSE]
             /\ session' = [session EXCEPT ![c] = NoUser]
             /\ resp' = Respond("delete_user", "deleted", user)
             /\ UNCHANGED <<games, msgs, inflight>>


(***************************************************************************)
(* GET /messages (src/App.py 313-348)                                      *)
(***************************************************************************)
\* the other party of message m, seen from user_id
OtherParty(user_id, m) ==
    IF msgs[m].sender_id = user_id THEN msgs[m].receiver_id ELSE msgs[m].sender_id

Involving(user_id) ==
    {m \in MsgIds : msgs[m].sender_id = user_id \/ msgs[m].receiver_id = user_id}

Counterparts(user_id) == {OtherParty(user_id, m) : m \in Involving(user_id)}

\* the group of one counterpart
GroupOf(user_id, other) == {m \in Involving(user_id) : OtherParty(user_id, m) = other}

\* faulty variant of MaxTimestamp: the oldest timestamp of the group
MinTimestamp(S) ==
    msgs[CHOOSE m \in S : \A n \in S : msgs[n].timestamp >= msgs[m].timestamp].timestamp

MaxTimestamp(S) ==
    msgs[CHOOSE m \in S : \A n \in S : msgs[n].timestamp <= msgs[m].timestamp].timestamp

\* one row per group: the Message columns come from a row of the group that
\* holds max(timestamp); with several such rows SQLite takes any of them
ChatEntries(user_id, other) ==
    LET group == GroupOf(user_id, other)
    IN  {[user |-> other,
          last_message |-> m,
          unread_count |-> Cardinality(UnreadFrom(other, user_id)),
          timestamp |-> MaxTimestamp(group)] :
            m \in {n \in group : msgs[n].timestamp = MaxTimestamp(group)}}

\* the lists the query can return: one entry per counterpart, ordered by
\* max_timestamp descending, equal timestamps in any order
ChatLists(user_id) ==
    LET others == Counterparts(user_id)
        n == Cardinality(others)
        entries == UNION {ChatEntries(user_id, o) : o \in others}
    IN  {chats \in [1..n -> entries] :
            /\ \A i, j \in 1..n : i # j => chats[i].user # chats[j].user
            /\ \A i, j \in 1..n : i < j => chats[i].timestamp >= chats[j].timestamp}

messages(c) ==
    IF login_required(c) # "pass"
    THEN /\ resp' = Respond("messages", login_required(c), 0)
         /\ UNCHANGED <<users, games, msgs, session, inflight>>
    ELSE /\ \E chats \in ChatLists(session[c]) :
              resp' = Respond("messages", "page", chats)
         /\ UNCHANGED <<users, games, msgs, session, inflight>>

(***************************************************************************)
(* GET /chat/<username> (src/App.py 350-377)                               *)
(***************************************************************************)
\* faulty variant of MarkRead: the sender is not filtered
MarkReadAnySender(sender, receiver) ==
    [m \in MsgIds |->
        IF msgs[m].receiver_id = receiver /\ ~ msgs[m].is_read
        THEN [msgs[m] EXCEPT !.is_read = TRUE]
        ELSE msgs[m]]

\* Message.query.filter_by(sender_id, receiver_id, is_read=False)
\*        .update({'is_read': True})
MarkRead(sender, receiver) ==
    [m \in MsgIds |->
        IF msgs[m].sender_id = sender /\ msgs[m].receiver_id = receiver
           /\ ~ msgs[m].is_read
        THEN [msgs[m] EXCEPT !.is_read = TRUE]
        ELSE msgs[m]]

chat(c, username) ==
    LET other_user == ActiveUserByName(username)
        current_user_id == session[c]
    IN  IF login_required(c) # "pass"
        THEN /\ resp' = Respond("chat", login_required(c), 0)
             /\ UNCHANGED <<users, games, msgs, session, inflight>>
        ELSE IF other_user = NoUser
        THEN /\ resp' = Respond("chat", "not_found", 0)
             /\ UNCHANGED <<users, games, msgs, session, inflight>>
        ELSE IF other_user = current_user_id
        THEN /\ resp' = Respond("chat", "self", 0)
             /\ UNCHANGED <<users, games, msgs, session, inflight>>
        ELSE /\ msgs' = MarkRead(other_user, current_user_id)
             /\ \E history \in HistoryOrders(Between(current_user_id, other_user)) :
                  resp' = Respond("chat", "page",
                                  [other_user |-> other_user, messages |-> history])
             /\ UNCHANGED <<users, games, session, inflight>>

(***************************************************************************)
(* GET /chat/<username> in two steps: the update of the read flags with    *)
(* its commit (lines 354-367) and the history query (lines 370-377), which *)
(* runs in a new transaction and sees what other requests committed in     *)
(* between.                                                                *)
(***************************************************************************)
chat_mark(c, username) ==
    LET other_user == ActiveUserByName(username)
        current_user_id == session[c]
    IN  /\ inflight[c].op = "none"
        /\ login_required(c) = "pass"
        /\ other_user # NoUser
        /\ other_user # current_user_id
        /\ msgs' = MarkRead(other_user, current_user_id)
        /\ inflight' = [inflight EXCEPT ![c] =
                            [op |-> "chat", other_user |-> other_user,
                             current_user_id |-> current_user_id]]
        /\ UNCHANGED <<users, games, session, resp>>

chat_history(c) ==
    LET request == inflight[c]
    IN  /\ request.op = "chat"
        /\ \E history \in HistoryOrders(Between(request.current_user_id,
                                                 request.other_user)) :
              resp' = Respond("chat", "page",
                              [other_user |-> request.other_user,
                               messages |-> history])
        /\ inflight' = [inflight EXCEPT ![c] = Idle]
        /\ UNCHANGED <<users, games, msgs, session>>

(***************************************************************************)
(* POST /send_message/<username> (src/App.py 379-406)                      *)
(***************************************************************************)
\* faulty variant of ContentError: the largest length is refused as well
ContentErrorInclusive(content) ==
    IF content = <<>> THEN "empty"
    ELSE IF Len(content) >= ContentMaxLen THEN "too_long"
    ELSE "ok"

\* the error of the content checks, "ok" when the message is stored
ContentError(content) ==
    IF content = <<>> THEN "empty"
    ELSE IF Len(content) > ContentMaxLen THEN "too_long"
    ELSE "ok"

send_message(c, username, body) ==
    LET other_user == ActiveUserByName(username)
        current_user_id == session[c]
        content == strip(body)
    IN  IF login_required(c) # "pass"
        THEN /\ resp' = Respond("send_message", login_required(c), 0)
             /\ UNCHANGED <<users, games, msgs, session, inflight>>
        ELSE IF other_user = NoUser
        THEN /\ resp' = Respond("send_message", "not_found", 0)
             /\ UNCHANGED <<users, games, msgs, session, inflight>>
        ELSE IF other_user = current_user_id
        THEN /\ resp' = Respond("send_message", "self", 0)
             /\ UNCHANGED <<users, games, msgs, session, inflight>>
        ELSE IF ContentError(content) # "ok"
        THEN /\ resp' = Respond("send_message", ContentError(content), 0)
             /\ UNCHANGED <<users, games, msgs, session, inflight>>
        ELSE /\ Len(msgs) < MaxMsgs
             /\ \E ts \in NextTimestamps :
                  msgs' = Append(msgs,
                      NewMessage(current_user_id, other_user, content, ts))
             /\ resp' = Respond("send_message", "sent", 0)
             /\ UNCHANGED <<users, games, session, inflight>>

(***************************************************************************)
(* GET /api/unread_count (src/App.py 408-416)                              *)
(***************************************************************************)
unread_count(c) ==
    /\ resp' = IF login_required(c) # "pass"
               THEN Respond("unread_count", login_required(c), 0)
               ELSE Respond("unread_count", "json", UnreadCount(session[c]))
    /\ UNCHANGED <<users, games, msgs, session, inflight>>

(***************************************************************************)
(* Request inputs.                                                         *)
(***************************************************************************)
T_ann == <<"a","n","n">>
T_bob == <<"b","o","b">>
T_cat == <<"c","a","t">>
T_zed == <<"z","e","d">>
T_secret == <<"s","e","c","r","e","t">>
T_hunter2 == <<"h","u","n","t","e","r","2">>
T_short == <<"s","h","o","r","t">>
T_at_x_io == <<"@","x",".","i","o">>

Form(u, e, p, cp) ==
    [username |-> u, email |-> e, password |-> p, confirm_password |-> cp]

Credentials(u, p) == [username |-> u, password |-> p]

Profile(d, c, dc, tg, r) ==
    [description |-> d, contact |-> c, discord |-> dc, telegram |-> tg,
     preferred_role |-> r]

Methods == {"GET", "POST"}

\* game ids named in a URL: every id the table can hold, and one more
GameIds == 1..(MaxGameId + 1)

(***************************************************************************)
(* Workload: a member and an anonymous visitor.  Client c1 registers, logs *)
(* in, writes, reads and deletes the account; client c2 never logs in and  *)
(* requests every protected route.  All handlers take part.                *)
(***************************************************************************)
\* "ann" arrives padded and in upper case: stored as ann, ann@x.io
CoreForms ==
    { Form(<<" ">> \o T_ann \o <<"\n">>, <<"A","N","N","@","X",".","I","O"," ">>,
           T_secret, T_secret),
      Form(T_bob, T_bob \o T_at_x_io, T_hunter2, T_hunter2),
      Form(T_zed, T_zed \o T_at_x_io, T_short, T_short) }

CoreLogins ==
    { Credentials(T_ann, T_secret), Credentials(T_bob, T_hunter2),
      Credentials(T_ann, T_hunter2) }

CoreHandles == {T_ann, T_bob, T_zed}

CoreEditForms == { Profile(<<"h","i">>, <<>>, <<"d","#","1">>, <<>>, <<>>) }

CoreTitleFields == {<<"Dota 2">>, <<"Tetris">>}

CoreSelections == {<<>>, <<"Dota 2">>}

CoreContents == {<<>>, <<" ","h","i"," ">>}

Member == {"c1"}
Visitor == {"c2"}

Next ==
    \/ home
    \/ \E f \in CoreForms : register(f, "s1")
    \/ \E c \in Member, l \in CoreLogins : login(c, l.username, l.password)
    \/ \E c \in Member : logout(c)
    \/ \E h \in CoreHandles : view_profile(h)
    \/ \E s \in CoreSelections : find_game(s, {})
    \/ \E c \in Visitor, m \in Methods, h \in CoreHandles, f \in CoreEditForms :
          edit_profile(c, m, h, f)
    \/ \E c \in Visitor, m \in Methods, h \in CoreHandles, t \in CoreTitleFields :
          add_game(c, m, h, t)
    \/ \E c \in Visitor, h \in CoreHandles, g \in GameIds : delete_game(c, h, g)
    \/ \E c \in Clients, h \in CoreHandles : delete_user(c, h)
    \/ \E c \in Clients : messages(c)
    \/ \E c \in Clients, h \in CoreHandles : chat(c, h)
    \/ \E c \in Clients, h \in CoreHandles, b \in CoreContents : send_message(c, h, b)
    \/ \E c \in Clients : unread_count(c)

Spec == Init /\ [][Next]_vars

(***************************************************************************)
(* Workload: accounts.  Every registration form (each failing check, taken *)
(* handles and emails, padded and upper-case input), profile edits and     *)
(* soft-deletes.                                                           *)
(***************************************************************************)
RegisterForms ==
    { Form(T_ann, T_ann \o T_at_x_io, T_secret, T_secret),
      \* stripped and lower-cased: the handle of the first form, bob's email
      Form(<<" ">> \o T_ann \o <<"\n">>, <<" ","B","o","b">> \o T_at_x_io \o <<" ">>,
           T_secret, T_secret),
      Form(T_bob, T_bob \o T_at_x_io, T_hunter2, T_hunter2),
      Form(T_cat, T_cat \o T_at_x_io, T_secret, T_secret),
      \* one failing check each
      Form(<<"a","b">>, T_zed \o T_at_x_io, T_secret, T_secret),
      Form(Rep("a", UsernameMaxLen + 1), T_zed \o T_at_x_io, T_secret, T_secret),
      Form(<<"a"," ","b">>, T_zed \o T_at_x_io, T_secret, T_secret),
      Form(T_zed, <<"z","e","d","@","x">>, T_secret, T_secret),
      Form(T_zed, <<"z","@","x",".","i">>, T_secret, T_secret),
      Form(T_zed, T_zed \o T_at_x_io, T_short, T_short),
      Form(T_zed, T_zed \o T_at_x_io, T_secret, T_hunter2),
      \* several failing checks, and failing checks with a taken handle
      Form(<<"a","b">>, <<"z","e","d","@","x">>, T_short, T_secret),
      Form(T_ann, <<"z","e","d","@","x">>, T_short, T_secret),
      Form(T_ann, T_ann \o T_at_x_io, T_short, T_secret),
      Form(T_ann, T_ann \o T_at_x_io, T_secret, T_hunter2) }

Handles == {T_ann, T_bob, T_cat, T_zed}

AccountLogins ==
    { Credentials(T_ann, T_secret), Credentials(T_bob, T_hunter2),
      Credentials(T_cat, T_secret) }

NextAccounts ==
    \/ \E f \in RegisterForms : register(f, "s1")
    \/ \E c \in Member, l \in AccountLogins : login(c, l.username, l.password)
    \/ \E c \in Member, m \in Methods, h \in Handles, f \in CoreEditForms :
          edit_profile(c, m, h, f)
    \/ \E c \in Member, h \in Handles : delete_user(c, h)

SpecAccounts == Init /\ [][NextAccounts]_vars

(***************************************************************************)
(* Workload: logging in.  Known, unknown and padded handles with right and *)
(* wrong passwords, before and after a soft-delete; the library salts the  *)
(* hashes at random.                                                       *)
(***************************************************************************)
LoginForms ==
    { Form(T_ann, T_ann \o T_at_x_io, T_secret, T_secret),
      Form(T_bob, T_bob \o T_at_x_io, T_hunter2, T_hunter2),
      Form(T_cat, T_cat \o T_at_x_io, T_secret, T_secret) }

Salts == {"s1", "s2"}

LoginNames == {T_ann, <<" ">> \o T_bob \o <<" ">>, T_zed}
LoginPasswords == {T_secret, T_hunter2, <<" ">> \o T_secret}
Logins == {Credentials(u, p) : u \in LoginNames, p \in LoginPasswords}

NextLogin ==
    \/ \E f \in LoginForms, salt \in Salts : register(f, salt)
    \/ \E c \in Member, l \in Logins : login(c, l.username, l.password)
    \/ \E c \in Member : logout(c)
    \/ \E c \in Member, h \in Handles : delete_user(c, h)

SpecLogin == Init /\ [][NextLogin]_vars

(***************************************************************************)
(* Workload: games.  Two players keep their game lists and are searched.   *)
(***************************************************************************)
GameForms ==
    { Form(T_ann, T_ann \o T_at_x_io, T_secret, T_secret),
      Form(T_bob, T_bob \o T_at_x_io, T_hunter2, T_hunter2) }

GameLogins == {Credentials(T_ann, T_secret), Credentials(T_bob, T_hunter2)}

\* the game_title field of the add_game form: absent, or one value
TitleFields == {<<>>, <<"">>, <<"Dota 2">>, <<"Minecraft">>, <<"Tetris">>}

\* the games arguments of find_game: a list of at most two titles
Selections ==
    {<<>>, <<"Dota 2">>, <<"Minecraft">>, <<"Tetris">>,
     <<"Dota 2", "Minecraft">>, <<"Minecraft", "Dota 2">>, <<"Dota 2", "Dota 2">>,
     <<"Dota 2", "Tetris">>}

NextGames ==
    \/ \E f \in GameForms : register(f, "s1")
    \/ \E c \in Member, l \in GameLogins : login(c, l.username, l.password)
    \/ \E c \in Member, m \in Methods, h \in CoreHandles, t \in TitleFields :
          add_game(c, m, h, t)
    \/ \E c \in Member, h \in CoreHandles, g \in GameIds : delete_game(c, h, g)
    \/ \E c \in Member, h \in CoreHandles : delete_user(c, h)
    \/ \E s \in Selections : find_game(s, {})
    \/ home

SpecGames == Init /\ [][NextGames]_vars

(***************************************************************************)
(* Workload: owners.  Two users request every owner-guarded route, for     *)
(* their own handle, for the other's and for an unknown one.               *)
(***************************************************************************)
NextOwner ==
    \/ \E f \in GameForms : register(f, "s1")
    \/ \E c \in Member, l \in GameLogins : login(c, l.username, l.password)
    \/ \E c \in Member, m \in Methods, h \in CoreHandles, f \in CoreEditForms :
          edit_profile(c, m, h, f)
    \/ \E c \in Member, m \in Methods, h \in CoreHandles, t \in CoreTitleFields :
          add_game(c, m, h, t)
    \/ \E c \in Member, h \in CoreHandles, g \in GameIds : delete_game(c, h, g)
    \/ \E c \in Member, h \in CoreHandles : delete_user(c, h)

SpecOwner == Init /\ [][NextOwner]_vars

(***************************************************************************)
(* Workload: sending.  Two users send every kind of content.               *)
(***************************************************************************)
\* empty, blank, padded, of the largest length, and one character longer
Contents ==
    { <<>>, <<" ", "\n">>, <<" ","h","i"," ">>,
      <<" ">> \o Rep("x", ContentMaxLen) \o <<"\n">>,
      Rep("x", ContentMaxLen + 1) }

NextSend ==
    \/ \E f \in GameForms : register(f, "s1")
    \/ \E c \in Member, l \in GameLogins : login(c, l.username, l.password)
    \/ \E c \in Member : logout(c)
    \/ \E c \in Member, h \in CoreHandles, b \in Contents : send_message(c, h, b)

SpecSend == Init /\ [][NextSend]_vars

(***************************************************************************)
(* Workload: reading.  Three registered users write to ann and bob, and    *)
(* everybody opens conversations.  The workload starts after the three     *)
(* registrations.                                                          *)
(***************************************************************************)
ChatForms == <<Form(T_ann, T_ann \o T_at_x_io, T_secret, T_secret),
               Form(T_bob, T_bob \o T_at_x_io, T_hunter2, T_hunter2),
               Form(T_cat, T_cat \o T_at_x_io, T_secret, T_secret)>>

ChatLogins == GameLogins \cup {Credentials(T_cat, T_secret)}

\* the User table after the registrations of ChatForms, in this order
ChatUsers ==
    [i \in 1..Len(ChatForms) |->
        NewUser(strip(ChatForms[i].username), lower(strip(ChatForms[i].email)),
                generate_password_hash("s1", ChatForms[i].password))]

InitChat ==
    /\ users = ChatUsers
    /\ games = {}
    /\ msgs = <<>>
    /\ session = [c \in Clients |-> NoUser]
    /\ resp = Respond("register", "registered", 0)
    /\ inflight = [c \in Clients |-> Idle]

NextChat ==
    \/ \E c \in Member, l \in ChatLogins : login(c, l.username, l.password)
    \/ \E c \in Member, h \in {T_ann, T_bob} : send_message(c, h, <<"h","i">>)
    \/ \E c \in Member, h \in Handles : chat(c, h)
    \/ \E c \in Member : unread_count(c)

SpecChat == InitChat /\ [][NextChat]_vars

(***************************************************************************)
(* Workload: inbox.  Three registered users write to each other, open      *)
(* conversations and list them.                                            *)
(***************************************************************************)
InboxHandles == {T_ann, T_bob, T_cat}

NextInbox ==
    \/ \E c \in Member, l \in ChatLogins : login(c, l.username, l.password)
    \/ \E c \in Member, h \in InboxHandles : send_message(c, h, <<"h","i">>)
    \/ \E c \in Member, h \in InboxHandles : chat(c, h)
    \/ \E c \in Member : messages(c)

SpecInbox == InitChat /\ [][NextInbox]_vars


(***************************************************************************)
(* Workload: contacts.  Of three registered users, two fill in their       *)
(* contact channels and add a game, and players are searched by game and   *)
(* by channel.                                                             *)
(***************************************************************************)
\* no channel, discord only, telegram only, both
ContactForms ==
    { Profile(<<>>, <<>>, d, t, <<>>) :
        d \in {<<>>, <<"d","#","1">>}, t \in {<<>>, <<"@","t">>} }

\* the contact_filter arguments of find_game
ContactFilters == SUBSET {"discord", "telegram"}

NextContacts ==
    \/ \E c \in Member, l \in GameLogins : login(c, l.username, l.password)
    \/ \E c \in Member, h \in {T_ann, T_bob}, f \in ContactForms :
          edit_profile(c, "POST", h, f)
    \/ \E c \in Member, h \in {T_ann, T_bob} : add_game(c, "POST", h, <<"Dota 2">>)
    \/ \E c \in Member, h \in {T_ann, T_bob} : delete_user(c, h)
    \/ \E s \in CoreSelections, f \in ContactFilters : find_game(s, f)

SpecContacts == InitChat /\ [][NextContacts]_vars


(***************************************************************************)
(* Workload: concurrent game lists.  Two browsers, possibly of the same    *)
(* user, submit add_game forms that the server handles in two threads;     *)
(* games are deleted in between.                                           *)
(***************************************************************************)
NextRaceGames ==
    \/ \E c \in Clients, l \in GameLogins : login(c, l.username, l.password)
    \/ \E c \in Clients, h \in {T_ann, T_bob} : add_game_check(c, h, <<"Dota 2">>)
    \/ \E c \in Clients : add_game_insert(c)
    \/ \E c \in Clients, h \in {T_ann, T_bob}, g \in GameIds : delete_game(c, h, g)

SpecRaceGames == InitChat /\ [][NextRaceGames]_vars


(***************************************************************************)
(* Workload: concurrent reading.  Two users, each in a browser, write to   *)
(* each other while conversations are being opened.                        *)
(***************************************************************************)
NextRaceChat ==
    \/ \E c \in Clients, l \in GameLogins : login(c, l.username, l.password)
    \/ \E c \in Clients, h \in {T_ann, T_bob} : send_message(c, h, <<"h","i">>)
    \/ \E c \in Clients, h \in {T_ann, T_bob} : chat_mark(c, h)
    \/ \E c \in Clients : chat_history(c)
    \/ \E c \in Clients : unread_count(c)

SpecRaceChat == InitChat /\ [][NextRaceChat]_vars


(***************************************************************************)
(* Workload: several sessions.  Two browsers log in, possibly as the same  *)
(* user; accounts are deleted through one of them while the other goes on  *)
(* writing.                                                                *)
(***************************************************************************)
NextSessions ==
    \/ \E c \in Clients, l \in GameLogins : login(c, l.username, l.password)
    \/ \E c \in Clients, h \in {T_ann, T_bob} : delete_user(c, h)
    \/ \E c \in Clients, h \in {T_ann, T_bob}, f \in CoreEditForms :
          edit_profile(c, "POST", h, f)
    \/ \E c \in Clients, h \in {T_ann, T_bob} : add_game(c, "POST", h, <<"Dota 2">>)
    \/ \E c \in Clients : send_message(c, T_bob, <<"h","i">>)

SpecSessions == InitChat /\ [][NextSessions]_vars



(***************************************************************************)
(* Properties.                                                             *)
(***************************************************************************)

\* C1: no two user records share a handle and no two share an email; a
\* register call that passes the four input checks and whose handle or
\* lower-cased email is held by an active user is rejected with a duplicate
\* error and adds no user record.
C1_UniqueUsers ==
    \A i, j \in UserIds :
        i # j => /\ users[i].username # users[j].username
                 /\ users[i].email # users[j].email

C1_PassesValidation(f) ==
    /\ validate_username(strip(f.username)) = "ok"
    /\ validate_email(lower(strip(f.email))) = "ok"
    /\ validate_password(f.password) = "ok"
    /\ f.password = f.confirm_password

C1_HeldByActiveUser(f) ==
    \E u \in UserIds :
        /\ users[u].is_active
        /\ \/ users[u].username = strip(f.username)
           \/ users[u].email = lower(strip(f.email))

\* the forms that pass the four input checks
C1_ValidForms == {f \in RegisterForms : C1_PassesValidation(f)}

C1_DuplicateRejected ==
    resp'.op = "register" =>
        \A f \in C1_ValidForms :
            (C1_HeldByActiveUser(f) /\ register(f, "s1"))
                => /\ resp'.outcome \in {"duplicate_username", "duplicate_email"}
                   /\ users' = users

C1_UniqueHandlesAndEmails == [][C1_UniqueUsers' /\ C1_DuplicateRejected]_vars

\* a registration was rejected for its email alone, next to two stored users
C1_Witness ==
    /\ resp.op = "register"
    /\ resp.outcome = "duplicate_email"
    /\ Len(users) = 2
    /\ C1_UniqueUsers

\* C9 as amended: login(handle, password) establishes a session for user U
\* if and only if U is the active user with that handle (after trimming) and
\* the password verifies against U's stored hash; an unknown handle, a
\* soft-deleted user and a wrong password all yield the same failure outcome
\* and leave the session as it was.
C9_Verifies(u, l) ==
    /\ users[u].is_active
    /\ users[u].username = strip(l.username)
    /\ check_password_hash(users[u].password_hash, l.password)

C9_LoginStep(c, l, sessionAfterFailure) ==
    login(c, l.username, l.password) =>
        IF \E u \in UserIds : C9_Verifies(u, l)
        THEN /\ resp'.outcome = "login_ok"
             /\ \E u \in UserIds : C9_Verifies(u, l) /\ session'[c] = u
        ELSE /\ resp'.outcome = "login_failed"
             /\ session'[c] = sessionAfterFailure

C9_LoginKeepsSessionOnFailure ==
    [][\A c \in Member, l \in Logins : C9_LoginStep(c, l, session[c])]_vars

\* a login failed while the client was logged in, and a soft-deleted user exists
C9_Witness ==
    /\ resp.op = "login"
    /\ resp.outcome = "login_failed"
    /\ session["c1"] # NoUser
    /\ \E u \in UserIds : ~ users[u].is_active

\* C9 as claimed: a failed login leaves the session without an identity.
C9_LoginClearsSessionOnFailure ==
    [][\A c \in Member, l \in Logins : C9_LoginStep(c, l, NoUser)]_vars


\* C2: an owner-guarded operation (edit_profile, add_game, delete_game,
\* delete_user) requested with a session whose user id differs from the id of
\* the user named by the target handle is denied, and no user, game, message
\* or session changes, whatever the request carries.
C2_Mismatch(c, h) ==
    /\ session[c] # NoUser
    /\ \E u \in UserIds : users[u].username = h /\ u # session[c]

C2_Denied ==
    /\ resp'.outcome = "forbidden"
    /\ UNCHANGED <<users, games, msgs, session>>

C2_OwnerOps == {"edit_profile", "add_game", "delete_game", "delete_user"}

C2_DeniedStep ==
    resp'.op \in C2_OwnerOps =>
        \A c \in Member, h \in CoreHandles :
            C2_Mismatch(c, h) =>
                /\ \A m \in Methods, f \in CoreEditForms :
                      edit_profile(c, m, h, f) => C2_Denied
                /\ \A m \in Methods, t \in CoreTitleFields :
                      add_game(c, m, h, t) => C2_Denied
                /\ \A g \in GameIds : delete_game(c, h, g) => C2_Denied
                /\ delete_user(c, h) => C2_Denied

C2_OwnerGuardDenies == [][C2_DeniedStep]_vars

\* a logged-in user asked to delete a game through another user's handle,
\* while games are stored
C2_Witness ==
    /\ resp.op = "delete_game"
    /\ resp.outcome = "forbidden"
    /\ session["c1"] # NoUser
    /\ \E g \in games : g.user_id # session["c1"]

\* C4: find_game with a non-empty selection and no contact requirement
\* returns exactly the active users whose owned titles include every
\* selected title.
C4_Owned(u) == {g.game_title : g \in {x \in games : x.user_id = u}}

C4_Selected(sel) == {sel[i] : i \in 1..Len(sel)}

C4_SupersetMatch ==
    (/\ resp.op = "find_game"
     /\ resp.data.selected_games # <<>>
     /\ resp.data.contact_filters = {})
        => resp.data.found_users =
              {u \in UserIds : /\ users[u].is_active
                               /\ C4_Selected(resp.data.selected_games) \subseteq C4_Owned(u)}

\* two titles were selected; one user owns both and is returned, another
\* active user owns one of them and is not
C4_Witness ==
    /\ resp.op = "find_game"
    /\ resp.data.selected_games = <<"Dota 2", "Minecraft">>
    /\ Cardinality(resp.data.found_users) = 1
    /\ \E u \in UserIds : /\ users[u].is_active
                          /\ C4_Owned(u) = {"Dota 2"}
                          /\ u \notin resp.data.found_users

\* C5: find_game with no selected titles and no contact requirements returns
\* exactly the users whose active flag is true.
C5_AllActive ==
    (/\ resp.op = "find_game"
     /\ resp.data.selected_games = <<>>
     /\ resp.data.contact_filters = {})
        => resp.data.found_users = {u \in UserIds : users[u].is_active}

\* an unconstrained search after a soft-delete, with games stored: one of
\* the two users is returned
C5_Witness ==
    /\ resp.op = "find_game"
    /\ resp.data.selected_games = <<>>
    /\ Len(users) = 2
    /\ Cardinality(resp.data.found_users) = 1
    /\ games # {}

\* C6: after the owner submits add_game for a catalog title, exactly one
\* entry is stored for that user and title, and a submission for a title the
\* user already holds leaves the game table unchanged.
C6_Entries(gs, u, title) == {g \in gs : g.user_id = u /\ g.game_title = title}

C6_AddStep ==
    resp'.op = "add_game" =>
        \A c \in Member, h \in CoreHandles, t \in TitleFields :
            (/\ session[c] # NoUser
             /\ \E u \in UserIds : users[u].username = h /\ u = session[c]
             /\ t # <<>>
             /\ t[1] \in AVAILABLE_GAMES
             /\ add_game(c, "POST", h, t))
                => /\ Cardinality(C6_Entries(games', session[c], t[1])) = 1
                   /\ (C6_Entries(games, session[c], t[1]) # {} => games' = games)

C6_AddGameIdempotent == [][C6_AddStep]_vars

\* the owner submitted a title already on the list: one entry is stored
C6_Witness ==
    /\ resp.op = "add_game"
    /\ resp.outcome = "already_there"
    /\ Cardinality(C6_Entries(games, resp.data, "Dota 2")) = 1

\* C3 as claimed: a soft-deleted user appears in no find_game result and not
\* in the home listing; every message stays stored; and when a counterpart
\* opens the conversation with a soft-deleted user, the chat page returns
\* every message the two exchanged.
C3_Deleted(h) ==
    \E u \in UserIds : users[u].username = h /\ ~ users[u].is_active

C3_Listed ==
    IF resp.op = "find_game" THEN resp.data.found_users
    ELSE IF resp.op = "home" THEN resp.data.users
    ELSE {}

C3_NeverListed == \A u \in C3_Listed : users[u].is_active

C3_StaysStored ==
    /\ Len(msgs') >= Len(msgs)
    /\ \A m \in MsgIds :
          msgs'[m] = msgs[m] \/ msgs'[m] = [msgs[m] EXCEPT !.is_read = TRUE]

C3_HistoryReturned ==
    \A c \in Clients, h \in CoreHandles :
        (/\ session[c] # NoUser
         /\ C3_Deleted(h)
         /\ users[session[c]].username # h
         /\ Between(session[c], UserByName(h)) # {}
         /\ chat(c, h))
            => /\ resp'.outcome = "page"
               /\ {resp'.data.messages[i] : i \in DOMAIN resp'.data.messages}
                     = Between(session[c], UserByName(h))

C3_SoftDeleteKeepsHistory ==
    [][C3_NeverListed' /\ C3_StaysStored /\ C3_HistoryReturned]_vars

\* C7: send_message from session user A to handle B stores nothing when B is
\* A itself, when the content is empty after trimming, or when the trimmed
\* content is longer than 1000 characters; when B is an active user other
\* than A and the content passes, exactly one message is appended, with
\* sender A, receiver B, the trimmed content and read flag false, and no
\* other message changes.
C7_Refused(a, h, b) ==
    \/ users[a].username = h
    \/ strip(b) = <<>>
    \/ Len(strip(b)) > 1000

C7_SendStep ==
    resp'.op = "send_message" =>
        \A c \in Member, h \in CoreHandles, b \in Contents :
            (session[c] # NoUser /\ send_message(c, h, b)) =>
                IF C7_Refused(session[c], h, b)
                THEN msgs' = msgs
                ELSE \A u \in UserIds :
                        (users[u].username = h /\ users[u].is_active) =>
                            /\ Len(msgs') = Len(msgs) + 1
                            /\ SubSeq(msgs', 1, Len(msgs)) = msgs
                            /\ msgs'[Len(msgs')].sender_id = session[c]
                            /\ msgs'[Len(msgs')].receiver_id = u
                            /\ msgs'[Len(msgs')].content = strip(b)
                            /\ msgs'[Len(msgs')].is_read = FALSE

C7_SendMessageValidates == [][C7_SendStep]_vars

\* a message of exactly 1000 characters was stored after another message
C7_Witness ==
    /\ resp.op = "send_message"
    /\ resp.outcome = "sent"
    /\ Len(msgs) = 2
    /\ Len(msgs[2].content) = 1000
    /\ ~ msgs[2].is_read

\* C8: when reader B opens the conversation with an active user A and k
\* messages from A to B are unread, then afterwards every message from A to
\* B is read, the unread count of B has dropped by exactly k, and the
\* messages sent to B by other users and the messages sent by B are
\* unchanged.
C8_ChatStep ==
    resp'.op = "chat" =>
        \A c \in Member, h \in Handles :
            \A a \in UserIds :
                (/\ session[c] # NoUser
                 /\ users[a].username = h
                 /\ users[a].is_active
                 /\ a # session[c]
                 /\ chat(c, h))
                    => LET b == session[c]
                           k == Cardinality(UnreadFrom(a, b))
                       IN  /\ Len(msgs') = Len(msgs)
                           /\ \A m \in MsgIds :
                                 IF msgs[m].sender_id = a /\ msgs[m].receiver_id = b
                                 THEN msgs'[m].is_read
                                 ELSE msgs'[m] = msgs[m]
                           /\ UnreadCount(b)' = UnreadCount(b) - k

C8_ChatMarksRead == [][C8_ChatStep]_vars

\* the reader opened a conversation of two messages, both sent by the other
\* user, and both are read now
C8_Witness ==
    /\ resp.op = "chat"
    /\ resp.outcome = "page"
    /\ Len(msgs) = 2
    /\ Len(resp.data.messages) = 2
    /\ \A m \in MsgIds : /\ msgs[m].sender_id = resp.data.other_user
                          /\ msgs[m].receiver_id = session["c1"]
                          /\ msgs[m].is_read

\* C10: every protected operation (edit_profile, add_game, delete_game,
\* delete_user, messages, chat, send_message, unread_count) requested without
\* a session identity is redirected to login and changes no user, game,
\* message or session; the response is the same for every handle, known or
\* unknown.
C10_ProtectedOps ==
    {"edit_profile", "add_game", "delete_game", "delete_user", "messages",
     "chat", "send_message", "unread_count"}

C10_Redirected(op) ==
    /\ resp' = Respond(op, "redirect_login", 0)
    /\ UNCHANGED <<users, games, msgs, session>>

C10_AnonymousStep ==
    \A c \in Clients :
        (session[c] = NoUser /\ resp'.op \in C10_ProtectedOps) =>
            /\ resp'.op = "edit_profile" =>
                  \A h \in CoreHandles, m \in Methods, f \in CoreEditForms :
                      edit_profile(c, m, h, f) => C10_Redirected("edit_profile")
            /\ resp'.op = "add_game" =>
                  \A h \in CoreHandles, m \in Methods, t \in CoreTitleFields :
                      add_game(c, m, h, t) => C10_Redirected("add_game")
            /\ resp'.op = "delete_game" =>
                  \A h \in CoreHandles, g \in GameIds :
                      delete_game(c, h, g) => C10_Redirected("delete_game")
            /\ resp'.op = "delete_user" =>
                  \A h \in CoreHandles :
                      delete_user(c, h) => C10_Redirected("delete_user")
            /\ resp'.op = "messages" =>
                  (messages(c) => C10_Redirected("messages"))
            /\ resp'.op = "chat" =>
                  \A h \in CoreHandles : chat(c, h) => C10_Redirected("chat")
            /\ resp'.op = "send_message" =>
                  \A h \in CoreHandles, b \in CoreContents :
                      send_message(c, h, b) => C10_Redirected("send_message")
            /\ resp'.op = "unread_count" =>
                  (unread_count(c) => C10_Redirected("unread_count"))

C10_AnonymousRedirected == [][C10_AnonymousStep]_vars

\* an anonymous client asked to send a message to a registered user while
\* users and messages are stored
C10_Witness ==
    /\ resp.op = "send_message"
    /\ resp.outcome = "redirect_login"
    /\ session["c1"] = NoUser
    /\ Len(users) = 2
    /\ msgs # <<>>

\* C11 as claimed: when a soft-deleted account holds an email that no active
\* user holds, a register call with that email, a handle nobody holds and
\* input that passes the four checks purges the soft-deleted account and
\* succeeds: afterwards an active user holds the email and the handle, and no
\* soft-deleted account holds the email.
C11_Reclaimable(f) ==
    /\ \E u \in UserIds :
          users[u].email = lower(strip(f.email)) /\ ~ users[u].is_active
    /\ \A u \in UserIds :
          /\ users[u].is_active => users[u].email # lower(strip(f.email))
          /\ users[u].username # strip(f.username)

C11_Reclaimed(f) ==
    /\ resp'.outcome = "registered"
    /\ \E u \in DOMAIN users' :
          /\ users'[u].is_active
          /\ users'[u].email = lower(strip(f.email))
          /\ users'[u].username = strip(f.username)
    /\ \A u \in DOMAIN users' :
          users'[u].email = lower(strip(f.email)) => users'[u].is_active

C11_ReclaimStep ==
    resp'.op = "register" =>
        \A f \in C1_ValidForms :
            (C11_Reclaimable(f) /\ register(f, "s1")) => C11_Reclaimed(f)

C11_InactiveEmailReclaimed == [][C11_ReclaimStep]_vars

\* C12: register runs its input checks in the order handle format, email
\* format, password length, password equals confirmation, and reports the
\* first failing check only; when any of the four fails no user record is
\* created, whatever the later checks and the duplicate lookups would say.
C12_Checks(f) ==
    << validate_username(strip(f.username)),
       validate_email(lower(strip(f.email))),
       validate_password(f.password),
       IF f.password = f.confirm_password THEN "ok" ELSE "password_mismatch" >>

C12_FirstFailure(checks) ==
    checks[CHOOSE i \in 1..4 : checks[i] # "ok" /\ \A j \in 1..(i - 1) : checks[j] = "ok"]

\* the checks of every form, computed once
C12_FormChecks == [f \in RegisterForms |-> C12_Checks(f)]

C12_RegisterStep ==
    resp'.op = "register" =>
        \A f \in RegisterForms :
            ((\E i \in 1..4 : C12_FormChecks[f][i] # "ok") /\ register(f, "s1"))
                => /\ resp'.outcome = C12_FirstFailure(C12_FormChecks[f])
                   /\ users' = users

C12_ChecksInOrder == [][C12_RegisterStep]_vars

\* the email format was reported while the handle ann is taken: a form with
\* the taken handle, a malformed email and a short, unconfirmed password
C12_Witness ==
    /\ resp.op = "register"
    /\ resp.outcome = "email_format"
    /\ \E u \in UserIds : users[u].username = T_ann

\* C13: the message table is an append-only ledger: a stored message is
\* never removed and its sender, receiver and content never change; its read
\* flag changes only from false to true, and only in a chat request of its
\* receiver for the conversation with its sender.
C13_LedgerStep ==
    /\ Len(msgs') >= Len(msgs)
    /\ \A m \in MsgIds :
          /\ msgs'[m].sender_id = msgs[m].sender_id
          /\ msgs'[m].receiver_id = msgs[m].receiver_id
          /\ msgs'[m].content = msgs[m].content
          /\ msgs[m].is_read => msgs'[m].is_read
          /\ msgs'[m].is_read # msgs[m].is_read =>
                \E c \in Clients, h \in CoreHandles :
                    /\ chat(c, h)
                    /\ session[c] = msgs[m].receiver_id
                    /\ users[msgs[m].sender_id].username = h

C13_AppendOnlyLedger == [][C13_LedgerStep]_vars

\* a message was read by its receiver, and its sender was soft-deleted later
C13_Witness ==
    /\ msgs # <<>>
    /\ msgs[1].is_read
    /\ ~ users[msgs[1].sender_id].is_active

\* C14: messages for user U returns exactly one entry per counterpart with
\* whom U has exchanged a message; each entry carries a message between U
\* and that counterpart that no other message between them is newer than,
\* and the number of unread messages from that counterpart to U; the entries
\* are ordered by the timestamp of that message, newest first.
C14_Exchanged(u, o) ==
    {m \in MsgIds : \/ msgs[m].sender_id = u /\ msgs[m].receiver_id = o
                    \/ msgs[m].sender_id = o /\ msgs[m].receiver_id = u}

C14_EntryRight(u, e) ==
    /\ e.last_message \in C14_Exchanged(u, e.user)
    /\ \A m \in C14_Exchanged(u, e.user) :
          msgs[m].timestamp <= msgs[e.last_message].timestamp
    /\ e.timestamp = msgs[e.last_message].timestamp
    /\ e.unread_count =
          Cardinality({m \in MsgIds : /\ msgs[m].sender_id = e.user
                                      /\ msgs[m].receiver_id = u
                                      /\ ~ msgs[m].is_read})

C14_ListRight(u, chats) ==
    /\ {chats[i].user : i \in DOMAIN chats} =
          {o \in UserIds : o # u /\ C14_Exchanged(u, o) # {}}
    /\ \A i, j \in DOMAIN chats : i # j => chats[i].user # chats[j].user
    /\ \A i \in DOMAIN chats : C14_EntryRight(u, chats[i])
    /\ \A i, j \in DOMAIN chats :
          i < j => msgs[chats[i].last_message].timestamp
                      >= msgs[chats[j].last_message].timestamp

C15_HasChannel(u, channel) ==
    IF channel = "discord" THEN users[u].discord # <<>>
    ELSE users[u].telegram # <<>>

C15_ContactFilter ==
    (/\ resp.op = "find_game"
     /\ resp.data.contact_filters # {}
     /\ resp.data.contact_filters \subseteq {"discord", "telegram"})
        => resp.data.found_users =
              {u \in UserIds :
                  /\ users[u].is_active
                  /\ C4_Selected(resp.data.selected_games) \subseteq C4_Owned(u)
                  /\ \E ch \in resp.data.contact_filters : C15_HasChannel(u, ch)}

\* both channels were requested for a game two active users own: the one
\* with a discord handle only is returned, the one with no channel is not
C15_Witness ==
    /\ resp.op = "find_game"
    /\ resp.data.contact_filters = {"discord", "telegram"}
    /\ resp.data.selected_games = <<"Dota 2">>
    /\ \E u \in resp.data.found_users :
          users[u].discord # <<>> /\ users[u].telegram = <<>>
    /\ \E u \in UserIds \ resp.data.found_users :
          /\ users[u].is_active
          /\ "Dota 2" \in C4_Owned(u)
          /\ users[u].discord = <<>> /\ users[u].telegram = <<>>

\* C16: add_game with a title that is missing or not in AVAILABLE_GAMES
\* stores no game entry and changes no user, message or session; the title
\* of every stored game entry is a member of the catalog.
C16_InCatalog == \A g \in games : g.game_title \in AVAILABLE_GAMES

C16_Offered(field) == field # <<>> /\ field[1] \in AVAILABLE_GAMES

C16_AddStep ==
    resp'.op = "add_game" =>
        \A c \in Member, h \in CoreHandles, t \in TitleFields :
            (~ C16_Offered(t) /\ add_game(c, "POST", h, t))
                => UNCHANGED <<users, games, msgs, session>>

C16_CatalogOnly == [][C16_InCatalog' /\ C16_AddStep]_vars

\* the owner, holding a catalog title, was shown the add_game page again
C16_Witness ==
    /\ resp.op = "add_game"
    /\ resp.outcome = "page"
    /\ session["c1"] # NoUser
    /\ resp.data = session["c1"]
    /\ GamesOf(session["c1"]) # {}
    /\ C16_InCatalog

\* C17 as claimed: in every reachable state there is at most one game entry
\* per user and title, also when two add_game requests for the same user and
\* title interleave between the existence check and the insert.
C17_OneEntryPerPair ==
    \A g, h \in games :
        (g.user_id = h.user_id /\ g.game_title = h.game_title) => g = h

\* C18 as claimed: when chat by reader B with counterpart A returns the
\* history, every message from A to B in it has its read flag true, also
\* when send_message requests from A to B run during the chat request.
C18_HistoryStep ==
    \A c \in Clients :
        chat_history(c) =>
            \A i \in DOMAIN resp'.data.messages :
                LET m == msgs'[resp'.data.messages[i]]
                IN  (/\ m.sender_id = inflight[c].other_user
                     /\ m.receiver_id = inflight[c].current_user_id)
                        => m.is_read

C18_HistoryAllRead == [][C18_HistoryStep]_vars

\* C19 as claimed: every session identity refers to an active user, also
\* when a user holds several sessions and delete_user is performed through
\* one of them; no profile edit, game addition or removal, or message send
\* is carried out for a soft-deleted user.
C19_SessionsActive ==
    \A c \in Clients : session[c] # NoUser => users[session[c]].is_active

C19_ActorActive ==
    /\ \A m \in (Len(msgs) + 1)..Len(msgs') : users[msgs'[m].sender_id].is_active
    /\ \A g \in (games' \ games) \cup (games \ games') : users[g.user_id].is_active
    /\ resp'.op = "edit_profile" =>
          \A u \in UserIds : users'[u] # users[u] => users[u].is_active

C19_NoSessionOfDeletedUser == [][C19_SessionsActive' /\ C19_ActorActive]_vars

\* C20: delete_game(handle, game_id) removes at most the one game entry with
\* that id, and only when the entry belongs to the session user: requested
\* by the owner of the handle for an entry of another user, or for an id no
\* entry has, it removes nothing.  No entry is added and no user, message or
\* session changes.
C20_DeleteStep ==
    resp'.op = "delete_game" =>
        \A c \in Member, h \in CoreHandles, g \in GameIds :
            delete_game(c, h, g) =>
                /\ games' \subseteq games
                /\ games \ games' \subseteq
                      {x \in games : x.id = g /\ x.user_id = session[c]}
                /\ Cardinality(games \ games') <= 1
                /\ UNCHANGED <<users, msgs, session>>

C20_DeleteOwnEntryOnly == [][C20_DeleteStep]_vars

\* a logged-in user named an entry of another user under the own handle and
\* was refused; the entry is still stored
C20_Witness ==
    /\ resp.op = "delete_game"
    /\ resp.outcome = "access_error"
    /\ session["c1"] # NoUser
    /\ \E x \in games : x.user_id # session["c1"]

====
